---- MODULE Spec2Model ----
(***************************************************************************)
(* A model of app.py, the calendar-of-events server: the two SQLite tables *)
(* (events, event_images), the upload folder, the admin session flag and   *)
(* the request handlers, each split at the points where its effects become *)
(* visible to other requests (a file operation, the first write statement  *)
(* of a transaction, the commit).                                          *)
(***************************************************************************)
EXTENDS Integers, Sequences, FiniteSets, TLC

(***************************************************************************)
(* Bounds of the model.                                                    *)
(***************************************************************************)
\* event ids handed out by AUTOINCREMENT, sample row included
MaxEvents == 2
\* files stored (uuid4 calls, event_images ids) in one behaviour
MaxImages == 2
\* seconds the clock moves on in one behaviour
MaxNow == 1

\* the server threads that handle requests concurrently
Workers == {"w1", "w2"}

(***************************************************************************)
(* Configuration (app.py lines 17-23).                                     *)
(***************************************************************************)
ADMIN_USERNAME == "admin"
ADMIN_PASSWORD == "admin123"

png == <<"p", "n", "g">>
jpg == <<"j", "p", "g">>
jpeg == <<"j", "p", "e", "g">>
gif == <<"g", "i", "f">>
webp == <<"w", "e", "b", "p">>
jfif == <<"j", "f", "i", "f">>
ALLOWED_EXTENSIONS == {png, jpg, jpeg, gif, webp, jfif}

\* the list the handlers test a category against, and the CHECK constraint
Categories == {"general", "academic", "social", "spiritual", "career"}

\* the eight columns create_event fills and update_event may overwrite
Fields ==
  <<"title", "description", "event_date", "event_time", "location",
    "category", "author", "author_initials">>

FieldSet == {Fields[i] : i \in 1..Len(Fields)}

(***************************************************************************)
(* Strings the handlers take apart are sequences of characters.            *)
(***************************************************************************)
UpperCase == <<"A", "B", "C", "D", "E", "F", "G", "H", "I", "J", "K", "L", "M",
               "N", "O", "P", "Q", "R", "S", "T", "U", "V", "W", "X", "Y", "Z">>
LowerCase == <<"a", "b", "c", "d", "e", "f", "g", "h", "i", "j", "k", "l", "m",
               "n", "o", "p", "q", "r", "s", "t", "u", "v", "w", "x", "y", "z">>

\* str.lower()
lower(s) ==
  [i \in 1..Len(s) |->
     IF \E k \in 1..26 : UpperCase[k] = s[i]
     THEN LowerCase[CHOOSE k \in 1..26 : UpperCase[k] = s[i]]
     ELSE s[i]]

\* filename.rsplit('.', 1)[1], for a filename that holds a '.'
rsplit_ext(s) ==
  LET last == CHOOSE i \in 1..Len(s) :
                s[i] = "." /\ \A j \in (i+1)..Len(s) : s[j] # "."
  IN  SubSeq(s, last + 1, Len(s))

\* a mutant of allowed_file: the extension is compared as it was sent
allowed_file_as_sent(filename) ==
  /\ \E i \in 1..Len(filename) : filename[i] = "."
  /\ rsplit_ext(filename) \in ALLOWED_EXTENSIONS

\* allowed_file(): '.' in filename and its lower-cased extension is allowed
allowed_file(filename) ==
  /\ \E i \in 1..Len(filename) : filename[i] = "."
  /\ lower(rsplit_ext(filename)) \in ALLOWED_EXTENSIONS

\* the test of the upload loops: file and file.filename and allowed_file(...)
Accepted(filename) == filename # <<>> /\ allowed_file(filename)

RECURSIVE strip(_)
\* str.strip("._")
strip(s) ==
  IF s = <<>> THEN s
  ELSE IF Head(s) \in {".", "_"} THEN strip(Tail(s))
  ELSE IF s[Len(s)] \in {".", "_"} THEN strip(SubSeq(s, 1, Len(s) - 1))
  ELSE s

\* werkzeug's secure_filename on names made of ASCII letters, digits and '.':
\* those characters are kept, leading and trailing dots are stripped
secure_filename(filename) == strip(filename)

\* a mutant of unique_filename: the file is stored under the name the client
\* gave it
client_filename(n, filename) ==
  [hex |-> secure_filename(filename), ext |-> lower(rsplit_ext(filename))]

\* f"{uuid.uuid4().hex}.{ext}": the token is the n-th value uuid4 returned;
\* uuid4 draws 122 random bits and is taken never to repeat a value
unique_filename(n, filename) ==
  [hex |-> n, ext |-> lower(rsplit_ext(filename))]

RECURSIVE CountAccepted(_)
CountAccepted(files) ==
  IF files = <<>> THEN 0
  ELSE (IF Accepted(Head(files)) THEN 1 ELSE 0) + CountAccepted(Tail(files))

(***************************************************************************)
(* The database.                                                           *)
(***************************************************************************)
\* the first row of sample_events (init_db); created_at is the clock at start
sample_event ==
  [title |-> "Spring Devotional", description |-> "Join us ...",
   event_date |-> "2026-02-15", event_time |-> "10:00 AM",
   location |-> "Main Auditorium", category |-> "spiritual",
   author |-> "Campus Ministry", author_initials |-> "CM", created_at |-> 0]

\* the tables after init_db on an empty database, the sample list cut to its
\* first row: events by id, event_images by id, and sqlite_sequence
InitialDb ==
  [events |-> (1 :> sample_event),
   event_images |-> <<>>,
   seq_events |-> 1,
   seq_images |-> 0]

NoTx == [none |-> TRUE]
NoReq == [op |-> "none", event_id |-> 0, image_id |-> 0, data |-> <<>>]
\* sent: request.files.getlist('images'); files: what the upload loop has
\* still to look at; rows: the file names a delete has still to remove
NoLoc == [sent |-> <<>>, files |-> <<>>, rows |-> <<>>]
NoResp == [status |-> 0, error |-> ""]

VARIABLES
  admin_logged_in,  \* session['admin_logged_in'] of the admin's browser
  db,               \* the committed tables
  tx,               \* per worker: its connection's open transaction, or NoTx
  uploads,          \* the names of the files in UPLOAD_FOLDER
  uuid_count,       \* how many values uuid4 has returned
  now,              \* CURRENT_TIMESTAMP
  pc,               \* per worker: where its handler stands
  req,              \* per worker: the request it handles
  loc,              \* per worker: the handler's local variables
  resp              \* per worker: the response its handler returned

vars == <<admin_logged_in, db, tx, uploads, uuid_count, now, pc, req, loc, resp>>

Init ==
  /\ admin_logged_in = FALSE
  /\ db = InitialDb
  /\ tx = [w \in Workers |-> NoTx]
  /\ uploads = {}
  /\ uuid_count = 0
  /\ now = 0
  /\ pc = [w \in Workers |-> "idle"]
  /\ req = [w \in Workers |-> NoReq]
  /\ loc = [w \in Workers |-> NoLoc]
  /\ resp = [w \in Workers |-> NoResp]

(***************************************************************************)
(* What a connection sees, and how a handler ends.                         *)
(***************************************************************************)
\* a connection reads its own uncommitted writes, and otherwise the tables
View(w) == IF tx[w] = NoTx THEN db ELSE tx[w]

\* SQLite lets one connection write at a time: the first INSERT, UPDATE or
\* DELETE of a connection opens its transaction and takes the write lock
LockFree(w) == \A v \in Workers \ {w} : tx[v] = NoTx

\* dict.get(key, default)
Get(data, key, default) == IF key \in DOMAIN data THEN data[key] ELSE default

\* a request as a handler receives it
Request(op, event_id, image_id, data) ==
  [op |-> op, event_id |-> event_id, image_id |-> image_id, data |-> data]

\* the handler of request r returns: jsonify(...), status
Respond(w, r, status, error) ==
  /\ resp' = [resp EXCEPT ![w] = [status |-> status, error |-> error]]
  /\ req' = [req EXCEPT ![w] = r]
  /\ pc' = [pc EXCEPT ![w] = "return"]
  /\ loc' = [loc EXCEPT ![w] = NoLoc]

\* the response is sent and the worker takes the next request
send(w) ==
  /\ pc[w] = "return"
  /\ pc' = [pc EXCEPT ![w] = "idle"]
  /\ req' = [req EXCEPT ![w] = NoReq]
  /\ resp' = [resp EXCEPT ![w] = NoResp]
  /\ UNCHANGED <<admin_logged_in, db, tx, uploads, uuid_count, now, loc>>

\* an exception leaves the handler: the connection is dropped with its
\* transaction uncommitted, and Flask answers 500
Raise(w, error) ==
  /\ tx' = [tx EXCEPT ![w] = NoTx]
  /\ Respond(w, req[w], 500, error)

\* the files of a request that the upload loop still has to look at, the
\* ones it skips (no name, no allowed extension) dropped from the front
RECURSIVE DropRejected(_)
DropRejected(files) ==
  IF files = <<>> \/ Accepted(Head(files)) THEN files
  ELSE DropRejected(Tail(files))

\* the uploads that requests in flight will still store
PendingUploads ==
  LET n[S \in SUBSET Workers] ==
        IF S = {} THEN 0
        ELSE LET w == CHOOSE x \in S : TRUE
             IN  CountAccepted(loc[w].files) + n[S \ {w}]
  IN  n[Workers]

(***************************************************************************)
(* Page routes: /login and /logout.                                        *)
(***************************************************************************)
\* a login attempt: method, username, password
Login(m, u, p) == [method |-> m, username |-> u, password |-> p]

\* a mutant of credentials_match: the password is not compared
credentials_match_username_only(username, password) == username = ADMIN_USERNAME

\* username == ADMIN_USERNAME and password == ADMIN_PASSWORD
credentials_match(username, password) ==
  username = ADMIN_USERNAME /\ password = ADMIN_PASSWORD

login_page(w, method, username, password) ==
  /\ pc[w] = "idle"
  /\ LET r == Request("login_page", 0, 0, Login(method, username, password))
     IN  IF admin_logged_in
         THEN /\ Respond(w, r, 302, "")
              /\ UNCHANGED admin_logged_in
         ELSE IF method = "POST" /\ credentials_match(username, password)
         THEN /\ admin_logged_in' = TRUE
              /\ Respond(w, r, 302, "")
         ELSE /\ UNCHANGED admin_logged_in
              /\ Respond(w, r, 200,
                         IF method = "POST" THEN "Invalid username or password" ELSE "")
  /\ UNCHANGED <<db, tx, uploads, uuid_count, now>>

logout(w) ==
  /\ pc[w] = "idle"
  /\ admin_logged_in' = FALSE
  /\ Respond(w, Request("logout", 0, 0, <<>>), 302, "")
  /\ UNCHANGED <<db, tx, uploads, uuid_count, now>>

(***************************************************************************)
(* POST /api/events                                                        *)
(***************************************************************************)
\* a mutant of api_login_required: the decorator lets every request through
api_login_required_open == TRUE

\* api_login_required lets the request through: session.get('admin_logged_in')
api_login_required == admin_logged_in

\* a mutant of NewEvent: the category is stored as it was sent
NewEventAsSent(data, t) ==
  [title |-> Get(data, "title", ""),
   description |-> Get(data, "description", ""),
   event_date |-> Get(data, "event_date", ""),
   event_time |-> Get(data, "event_time", ""),
   location |-> Get(data, "location", ""),
   category |-> Get(data, "category", "general"),
   author |-> Get(data, "author", ""),
   author_initials |-> Get(data, "author_initials", ""),
   created_at |-> t]

\* the row create_event inserts for the form `data` at time `t`
NewEvent(data, t) ==
  [title |-> Get(data, "title", ""),
   description |-> Get(data, "description", ""),
   event_date |-> Get(data, "event_date", ""),
   event_time |-> Get(data, "event_time", ""),
   location |-> Get(data, "location", ""),
   category |-> IF Get(data, "category", "general") \notin Categories
                THEN "general" ELSE Get(data, "category", "general"),
   author |-> Get(data, "author", ""),
   author_initials |-> Get(data, "author_initials", ""),
   created_at |-> t]

\* the api_login_required gate, then the form is read
create_event(w, data, files) ==
  /\ pc[w] = "idle"
  /\ db.seq_events < MaxEvents
  /\ uuid_count + PendingUploads + CountAccepted(files) <= MaxImages
  /\ IF ~api_login_required
     THEN Respond(w, Request("create_event", 0, 0, data), 401, "Authentication required")
     ELSE /\ req' = [req EXCEPT ![w] = Request("create_event", 0, 0, data)]
          /\ pc' = [pc EXCEPT ![w] = "ce_insert"]
          /\ loc' = [loc EXCEPT ![w] = [NoLoc EXCEPT !.sent = files, !.files = files]]
          /\ UNCHANGED resp
  /\ UNCHANGED <<admin_logged_in, db, tx, uploads, uuid_count, now>>

\* INSERT INTO events; event_id = cursor.lastrowid
ce_insert(w) ==
  /\ pc[w] = "ce_insert"
  /\ LockFree(w)
  /\ LET id == db.seq_events + 1
         left == DropRejected(loc[w].files)
     IN  /\ tx' = [tx EXCEPT ![w] =
                     [db EXCEPT !.events = id :> NewEvent(req[w].data, now) @@ @,
                                !.seq_events = id]]
         /\ req' = [req EXCEPT ![w].event_id = id]
         /\ loc' = [loc EXCEPT ![w].files = left]
         /\ pc' = [pc EXCEPT ![w] = IF left = <<>> THEN "ce_commit" ELSE "ce_save"]
  /\ UNCHANGED <<admin_logged_in, db, uploads, uuid_count, now, resp>>

\* file.save(filepath) under a fresh name: the file is in the folder at once
SaveFile(w, next) ==
  /\ uuid_count' = uuid_count + 1
  /\ uploads' = uploads \cup {unique_filename(uuid_count + 1, Head(loc[w].files))}
  /\ pc' = [pc EXCEPT ![w] = next]
  /\ UNCHANGED <<admin_logged_in, db, tx, now, req, loc, resp>>

\* file.save raises (the disk is full, the folder is gone): the exception
\* leaves the handler; a file that was opened for writing may stay behind
SaveFails(w, partial) ==
  /\ uuid_count' = uuid_count + 1
  /\ uploads' = IF partial
                THEN uploads \cup {unique_filename(uuid_count + 1, Head(loc[w].files))}
                ELSE uploads
  /\ Raise(w, "OSError")
  /\ UNCHANGED <<admin_logged_in, db, now>>

\* INSERT INTO event_images (event_id, filename, original_name), and on to
\* the next file of the list
InsertImage(w, again, done) ==
  /\ tx[w] # NoTx \/ LockFree(w)
  /\ LET v == View(w)
         id == v.seq_images + 1
         file == Head(loc[w].files)
         left == DropRejected(Tail(loc[w].files))
         row == [event_id |-> req[w].event_id,
                 filename |-> unique_filename(uuid_count, file),
                 original_name |-> secure_filename(file),
                 uploaded_at |-> now]
     IN  /\ tx' = [tx EXCEPT ![w] =
                     [v EXCEPT !.event_images = id :> row @@ @, !.seq_images = id]]
         /\ loc' = [loc EXCEPT ![w].files = left]
         /\ pc' = [pc EXCEPT ![w] = IF left = <<>> THEN done ELSE again]
  /\ UNCHANGED <<admin_logged_in, db, uploads, uuid_count, now, req, resp>>

\* conn.commit(): the transaction's tables become the committed ones
Commit(w) ==
  /\ db' = View(w)
  /\ tx' = [tx EXCEPT ![w] = NoTx]

ce_save(w) ==
  /\ pc[w] = "ce_save"
  /\ SaveFile(w, "ce_image")

ce_save_fails(w) ==
  /\ pc[w] = "ce_save"
  /\ \E partial \in BOOLEAN : SaveFails(w, partial)

ce_image(w) ==
  /\ pc[w] = "ce_image"
  /\ InsertImage(w, "ce_save", "ce_commit")

ce_commit(w) ==
  /\ pc[w] = "ce_commit"
  /\ Commit(w)
  /\ Respond(w, req[w], 201, "")
  /\ UNCHANGED <<admin_logged_in, uploads, uuid_count, now>>

(***************************************************************************)
(* PUT /api/events/<event_id>                                              *)
(***************************************************************************)
\* a mutant of UpdatedEvent: the row is written anew from data, a field that
\* data does not have set to its default
ReplacedEvent(row, data) ==
  [f \in DOMAIN row |->
     IF f \in DOMAIN data /\ f \in FieldSet THEN data[f]
     ELSE IF f = "category" THEN "general"
     ELSE IF f = "created_at" THEN row[f]
     ELSE ""]

\* the row after UPDATE events SET <the fields of data> WHERE id = ?
UpdatedEvent(row, data) ==
  [f \in DOMAIN row |-> IF f \in FieldSet /\ f \in DOMAIN data THEN data[f] ELSE row[f]]

\* update_fields is not empty
HasFields(data) == \E f \in FieldSet : f \in DOMAIN data

\* the gate; data = request.form.to_dict() if request.form else
\* request.get_json(); then SELECT * FROM events WHERE id = ?
\* With an empty form and no JSON body get_json gives no dict: by the Flask
\* version it raises 400 or 415 at once, or it returns None, and then the
\* SELECT answers 404 for an id without a row and `field in data` raises for
\* an id with one.
update_event(w, event_id, form, is_json, json, files) ==
  /\ pc[w] = "idle"
  /\ uuid_count + PendingUploads + CountAccepted(files) <= MaxImages
  /\ LET data == IF form # <<>> THEN form ELSE json
         r == Request("update_event", event_id, 0, data)
     IN  IF ~api_login_required
         THEN Respond(w, r, 401, "Authentication required")
         ELSE IF form = <<>> /\ ~is_json
         THEN \/ \E status \in {400, 415} : Respond(w, r, status, "get_json")
              \/ IF event_id \in DOMAIN db.events
                 THEN Respond(w, r, 500, "TypeError")
                 ELSE Respond(w, r, 404, "Event not found")
         ELSE IF event_id \notin DOMAIN db.events
         THEN Respond(w, r, 404, "Event not found")
         ELSE /\ req' = [req EXCEPT ![w] = r]
              /\ loc' = [loc EXCEPT ![w] = [NoLoc EXCEPT !.sent = files,
                                                       !.files = DropRejected(files)]]
              /\ pc' = [pc EXCEPT ![w] =
                          IF HasFields(data) THEN "ue_update"
                          ELSE IF DropRejected(files) # <<>> THEN "ue_save"
                          ELSE "ue_commit"]
              /\ UNCHANGED resp
  /\ UNCHANGED <<admin_logged_in, db, tx, uploads, uuid_count, now>>

\* a mutant of ViolatesCheck: the table has no CHECK on category
NoCheck(w) == FALSE

\* the UPDATE violates CHECK(category IN (...)) on a row it changes
ViolatesCheck(w) ==
  /\ req[w].event_id \in DOMAIN db.events
  /\ "category" \in DOMAIN req[w].data
  /\ req[w].data["category"] \notin Categories

\* cursor.execute(query, values): the first write of the connection
ue_update(w) ==
  /\ pc[w] = "ue_update"
  /\ LockFree(w)
  /\ IF ViolatesCheck(w)
     THEN /\ Raise(w, "IntegrityError")
          /\ UNCHANGED <<admin_logged_in, db, uploads, uuid_count, now>>
     ELSE /\ tx' = [tx EXCEPT ![w] =
                      IF req[w].event_id \in DOMAIN db.events
                      THEN [db EXCEPT !.events[req[w].event_id] =
                                        UpdatedEvent(@, req[w].data)]
                      ELSE db]
          /\ pc' = [pc EXCEPT ![w] = IF loc[w].files # <<>> THEN "ue_save" ELSE "ue_commit"]
          /\ UNCHANGED <<admin_logged_in, db, uploads, uuid_count, now, req, loc, resp>>

ue_save(w) ==
  /\ pc[w] = "ue_save"
  /\ SaveFile(w, "ue_image")

ue_save_fails(w) ==
  /\ pc[w] = "ue_save"
  /\ \E partial \in BOOLEAN : SaveFails(w, partial)

ue_image(w) ==
  /\ pc[w] = "ue_image"
  /\ InsertImage(w, "ue_save", "ue_commit")

ue_commit(w) ==
  /\ pc[w] = "ue_commit"
  /\ Commit(w)
  /\ Respond(w, req[w], 200, "")
  /\ UNCHANGED <<admin_logged_in, uploads, uuid_count, now>>

(***************************************************************************)
(* DELETE /api/events/<event_id> and /api/events/<event_id>/images/<id>    *)
(***************************************************************************)
RECURSIVE Ascending(_)
\* the ids of a set in rowid order
Ascending(ids) ==
  IF ids = {} THEN <<>>
  ELSE LET least == CHOOSE i \in ids : \A j \in ids : i <= j
       IN  <<least>> \o Ascending(ids \ {least})

\* the ids of the event_images rows of an event
ImagesOf(images, event_id) ==
  {i \in DOMAIN images : images[i].event_id = event_id}

\* a table without the rows of ids `gone`
Without(table, gone) == [i \in DOMAIN table \ gone |-> table[i]]

\* a mutant of PathExists: os.remove is called without the test
PathNotTested(w, remove, more, done) ==
  /\ pc' = [pc EXCEPT ![w] = remove]
  /\ UNCHANGED <<admin_logged_in, db, tx, uploads, uuid_count, now, req, loc, resp>>

\* os.path.exists(filepath) on the first file left to remove
PathExists(w, remove, more, done) ==
  /\ IF Head(loc[w].rows) \in uploads
     THEN /\ pc' = [pc EXCEPT ![w] = remove]
          /\ loc' = loc
     ELSE /\ pc' = [pc EXCEPT ![w] = IF Tail(loc[w].rows) = <<>> THEN done ELSE more]
          /\ loc' = [loc EXCEPT ![w].rows = Tail(@)]
  /\ UNCHANGED <<admin_logged_in, db, tx, uploads, uuid_count, now, req, resp>>

\* os.remove(filepath): the file goes, or is gone already and the call raises
Remove(w, more, done) ==
  IF Head(loc[w].rows) \in uploads
  THEN /\ uploads' = uploads \ {Head(loc[w].rows)}
       /\ pc' = [pc EXCEPT ![w] = IF Tail(loc[w].rows) = <<>> THEN done ELSE more]
       /\ loc' = [loc EXCEPT ![w].rows = Tail(@)]
       /\ UNCHANGED <<admin_logged_in, db, tx, uuid_count, now, req, resp>>
  ELSE /\ Raise(w, "FileNotFoundError")
       /\ UNCHANGED <<admin_logged_in, db, uploads, uuid_count, now>>

\* os.remove raises on a file that is there (no permission, file in use)
RemoveFails(w) ==
  /\ Head(loc[w].rows) \in uploads
  /\ Raise(w, "OSError")
  /\ UNCHANGED <<admin_logged_in, db, uploads, uuid_count, now>>

\* the gate, then SELECT * FROM events WHERE id = ?
delete_event(w, event_id) ==
  /\ pc[w] = "idle"
  /\ LET r == Request("delete_event", event_id, 0, <<>>)
     IN  IF ~api_login_required
         THEN Respond(w, r, 401, "Authentication required")
         ELSE IF event_id \notin DOMAIN db.events
         THEN Respond(w, r, 404, "Event not found")
         ELSE /\ req' = [req EXCEPT ![w] = r]
              /\ pc' = [pc EXCEPT ![w] = "de_select"]
              /\ UNCHANGED <<loc, resp>>
  /\ UNCHANGED <<admin_logged_in, db, tx, uploads, uuid_count, now>>

\* SELECT filename FROM event_images WHERE event_id = ?
de_select(w) ==
  /\ pc[w] = "de_select"
  /\ LET ids == Ascending(ImagesOf(db.event_images, req[w].event_id))
         rows == [k \in 1..Len(ids) |-> db.event_images[ids[k]].filename]
     IN  /\ loc' = [loc EXCEPT ![w].rows = rows]
         /\ pc' = [pc EXCEPT ![w] = IF rows = <<>> THEN "de_delete" ELSE "de_exists"]
  /\ UNCHANGED <<admin_logged_in, db, tx, uploads, uuid_count, now, req, resp>>

de_exists(w) ==
  /\ pc[w] = "de_exists"
  /\ PathExists(w, "de_remove", "de_exists", "de_delete")

de_remove(w) ==
  /\ pc[w] = "de_remove"
  /\ Remove(w, "de_exists", "de_delete")

de_remove_fails(w) ==
  /\ pc[w] = "de_remove"
  /\ RemoveFails(w)

\* a mutant of DeleteEventRows: the rows of event_images are left to the
\* ON DELETE CASCADE of the schema, which SQLite does not enforce unless
\* PRAGMA foreign_keys is switched on
DeleteEventOnly(d, event_id) ==
  [d EXCEPT !.events = Without(@, {event_id})]

\* DELETE FROM event_images WHERE event_id = ?; DELETE FROM events WHERE id = ?
DeleteEventRows(d, event_id) ==
  [d EXCEPT !.event_images = Without(@, ImagesOf(@, event_id)),
            !.events = Without(@, {event_id})]

de_delete(w) ==
  /\ pc[w] = "de_delete"
  /\ LockFree(w)
  /\ tx' = [tx EXCEPT ![w] = DeleteEventRows(db, req[w].event_id)]
  /\ pc' = [pc EXCEPT ![w] = "de_commit"]
  /\ UNCHANGED <<admin_logged_in, db, uploads, uuid_count, now, req, loc, resp>>

de_commit(w) ==
  /\ pc[w] = "de_commit"
  /\ Commit(w)
  /\ Respond(w, req[w], 200, "")
  /\ UNCHANGED <<admin_logged_in, uploads, uuid_count, now>>

\* a mutant of ImageFound: the SELECT has no AND event_id = ?
ImageFoundUnderAnyEvent(d, event_id, image_id) ==
  image_id \in DOMAIN d.event_images

\* SELECT filename FROM event_images WHERE id = ? AND event_id = ? finds a row
ImageFound(d, event_id, image_id) ==
  /\ image_id \in DOMAIN d.event_images
  /\ d.event_images[image_id].event_id = event_id

\* the gate, then the SELECT
delete_image(w, event_id, image_id) ==
  /\ pc[w] = "idle"
  /\ LET r == Request("delete_image", event_id, image_id, <<>>)
     IN  IF ~api_login_required
         THEN Respond(w, r, 401, "Authentication required")
         ELSE IF ~ImageFound(db, event_id, image_id)
         THEN Respond(w, r, 404, "Image not found")
         ELSE /\ req' = [req EXCEPT ![w] = r]
              /\ loc' = [loc EXCEPT ![w].rows = <<db.event_images[image_id].filename>>]
              /\ pc' = [pc EXCEPT ![w] = "di_exists"]
              /\ UNCHANGED resp
  /\ UNCHANGED <<admin_logged_in, db, tx, uploads, uuid_count, now>>

di_exists(w) ==
  /\ pc[w] = "di_exists"
  /\ PathExists(w, "di_remove", "di_exists", "di_delete")

di_remove(w) ==
  /\ pc[w] = "di_remove"
  /\ Remove(w, "di_exists", "di_delete")

di_remove_fails(w) ==
  /\ pc[w] = "di_remove"
  /\ RemoveFails(w)

\* DELETE FROM event_images WHERE id = ?
di_delete(w) ==
  /\ pc[w] = "di_delete"
  /\ LockFree(w)
  /\ tx' = [tx EXCEPT ![w] =
              [db EXCEPT !.event_images = Without(@, {req[w].image_id})]]
  /\ pc' = [pc EXCEPT ![w] = "di_commit"]
  /\ UNCHANGED <<admin_logged_in, db, uploads, uuid_count, now, req, loc, resp>>

di_commit(w) ==
  /\ pc[w] = "di_commit"
  /\ Commit(w)
  /\ Respond(w, req[w], 200, "")
  /\ UNCHANGED <<admin_logged_in, uploads, uuid_count, now>>

(***************************************************************************)
(* GET /api/events, /api/slider, /api/events/<event_id> and                *)
(* /api/events/category/<category>: no gate, and each reads the committed  *)
(* tables through a connection of its own.                                 *)
(***************************************************************************)
\* the event_date texts of the model, in the order SQLite compares TEXT
Texts == <<"", "2026-01-10", "2026-02-15">>

TextRank(t) == CHOOSE k \in 1..Len(Texts) : Texts[k] = t

\* ORDER BY over the rows `ids`: the row at place k has k - 1 rows before it.
\* `before` is the pairs <<j, i>> with j ahead of i by the ORDER BY terms and
\* then the rowid, the order in which SQLite's scan hands rows that are
\* equal on the terms to the sorter.
OrderBy(ids, before) ==
  [k \in 1..Cardinality(ids) |->
     CHOOSE i \in ids : Cardinality({j \in ids : <<j, i>> \in before}) = k - 1]

\* a mutant of ByDateThenNewest: created_at ascending
ByDateThenOldest(d, i, j) ==
  LET a == d.events[i]
      b == d.events[j]
  IN  \/ TextRank(a.event_date) < TextRank(b.event_date)
      \/ a.event_date = b.event_date /\ a.created_at < b.created_at
      \/ a.event_date = b.event_date /\ a.created_at = b.created_at /\ i < j

\* ORDER BY event_date ASC, created_at DESC
ByDateThenNewest(d, i, j) ==
  LET a == d.events[i]
      b == d.events[j]
  IN  \/ TextRank(a.event_date) < TextRank(b.event_date)
      \/ a.event_date = b.event_date /\ a.created_at > b.created_at
      \/ a.event_date = b.event_date /\ a.created_at = b.created_at /\ i < j

\* ORDER BY event_date ASC
ByDate(d, i, j) ==
  LET a == d.events[i]
      b == d.events[j]
  IN  \/ TextRank(a.event_date) < TextRank(b.event_date)
      \/ a.event_date = b.event_date /\ i < j

\* dict(row) of an events row, and event['images']: the rows of
\* SELECT * FROM event_images WHERE event_id = ?, in rowid order
EventDict(d, i) ==
  LET mine == Ascending(ImagesOf(d.event_images, i))
  IN  [id |-> i] @@ d.events[i]
        @@ [images |-> [k \in 1..Len(mine) |-> [id |-> mine[k]] @@ d.event_images[mine[k]]]]

\* the list get_events returns
EventList(d) ==
  LET ids == DOMAIN d.events
      rows == OrderBy(ids, {p \in ids \X ids : ByDateThenNewest(d, p[1], p[2])})
  IN  [k \in 1..Len(rows) |-> EventDict(d, rows[k])]

\* the list get_events_by_category returns
CategoryList(d, category) ==
  LET ids == {i \in DOMAIN d.events : d.events[i].category = category}
      rows == OrderBy(ids, {p \in ids \X ids : ByDate(d, p[1], p[2])})
  IN  [k \in 1..Len(rows) |-> EventDict(d, rows[k])]

\* FROM event_images ei JOIN events e ON ei.event_id = e.id
Joined(d) == {a \in DOMAIN d.event_images : d.event_images[a].event_id \in DOMAIN d.events}

\* a mutant of ByDateThenLatestUpload: uploaded_at ascending
ByDateThenEarliestUpload(d, a, b) ==
  LET x == d.event_images[a]
      y == d.event_images[b]
      dx == d.events[x.event_id].event_date
      dy == d.events[y.event_id].event_date
  IN  \/ TextRank(dx) < TextRank(dy)
      \/ dx = dy /\ x.uploaded_at < y.uploaded_at
      \/ dx = dy /\ x.uploaded_at = y.uploaded_at /\ a < b

\* ORDER BY e.event_date ASC, ei.uploaded_at DESC
ByDateThenLatestUpload(d, a, b) ==
  LET x == d.event_images[a]
      y == d.event_images[b]
      dx == d.events[x.event_id].event_date
      dy == d.events[y.event_id].event_date
  IN  \/ TextRank(dx) < TextRank(dy)
      \/ dx = dy /\ x.uploaded_at > y.uploaded_at
      \/ dx = dy /\ x.uploaded_at = y.uploaded_at /\ a < b

\* one entry of slides
Slide(d, a) ==
  LET e == d.event_images[a].event_id
      row == d.events[e]
  IN  [image_id |-> a,
       image |-> <<"/uploads/", d.event_images[a].filename>>,
       event_id |-> e,
       title |-> row.title,
       description |-> row.description,
       date |-> row.event_date,
       time |-> row.event_time,
       location |-> row.location,
       category |-> row.category,
       author |-> row.author,
       author_initials |-> row.author_initials]

\* the list get_slider_images returns
SlideList(d) ==
  LET ids == Joined(d)
      rows == OrderBy(ids, {p \in ids \X ids : ByDateThenLatestUpload(d, p[1], p[2])})
  IN  [k \in 1..Len(rows) |-> Slide(d, rows[k])]

\* return jsonify(body)
RespondBody(w, r, body) ==
  /\ resp' = [resp EXCEPT ![w] = [status |-> 200, error |-> "", body |-> body]]
  /\ req' = [req EXCEPT ![w] = r]
  /\ pc' = [pc EXCEPT ![w] = "return"]
  /\ loc' = [loc EXCEPT ![w] = NoLoc]

get_events(w) ==
  /\ pc[w] = "idle"
  /\ RespondBody(w, Request("get_events", 0, 0, <<>>), EventList(db))
  /\ UNCHANGED <<admin_logged_in, db, tx, uploads, uuid_count, now>>

get_slider_images(w) ==
  /\ pc[w] = "idle"
  /\ RespondBody(w, Request("get_slider_images", 0, 0, <<>>), SlideList(db))
  /\ UNCHANGED <<admin_logged_in, db, tx, uploads, uuid_count, now>>

get_event(w, event_id) ==
  /\ pc[w] = "idle"
  /\ LET r == Request("get_event", event_id, 0, <<>>)
     IN  IF event_id \in DOMAIN db.events
         THEN RespondBody(w, r, EventDict(db, event_id))
         ELSE Respond(w, r, 404, "Event not found")
  /\ UNCHANGED <<admin_logged_in, db, tx, uploads, uuid_count, now>>

get_events_by_category(w, category) ==
  /\ pc[w] = "idle"
  /\ LET r == Request("get_events_by_category", 0, 0, [category |-> category])
     IN  IF category \notin Categories
         THEN Respond(w, r, 400, "Invalid category")
         ELSE RespondBody(w, r, CategoryList(db, category))
  /\ UNCHANGED <<admin_logged_in, db, tx, uploads, uuid_count, now>>

\* CURRENT_TIMESTAMP moves on by a second
Tick ==
  /\ now < MaxNow
  /\ now' = now + 1
  /\ UNCHANGED <<admin_logged_in, db, tx, uploads, uuid_count, pc, req, loc, resp>>

(***************************************************************************)
(* The write lock is held by another connection for longer than the busy   *)
(* timeout of sqlite3.connect: the statement raises "database is locked".  *)
(***************************************************************************)
database_locked(w) ==
  /\ pc[w] \in {"ce_insert", "ue_update", "ue_image", "de_delete", "di_delete"}
  /\ tx[w] = NoTx
  /\ ~LockFree(w)
  /\ Raise(w, "OperationalError")
  /\ UNCHANGED <<admin_logged_in, db, uploads, uuid_count, now>>

(***************************************************************************)
(* The requests the clients send.                                          *)
(***************************************************************************)
\* file names as browsers send them
a_png == <<"a", ".", "p", "n", "g">>
b_JPG == <<"b", ".", "J", "P", "G">>
n_txt == <<"n", ".", "t", "x", "t">>
README == <<"R", "E", "A", "D", "M", "E">>

EventIds == 1..(MaxEvents + 1)
ImageIds == 1..(MaxImages + 1)

\* a request for a page by worker w
PageRequest(w, logins) ==
  \/ \E l \in logins : login_page(w, l.method, l.username, l.password)
  \/ logout(w)

\* a request to the API by worker w, its arguments drawn from the given sets
ApiRequest(w, cforms, cfiles, uforms, ufiles, jsons) ==
  \/ \E form \in cforms, files \in cfiles : create_event(w, form, files)
  \/ \E id \in EventIds, form \in uforms, files \in ufiles :
       update_event(w, id, form, FALSE, <<>>, files)
  \/ \E id \in EventIds, json \in jsons : update_event(w, id, <<>>, TRUE, json, <<>>)
  \/ \E id \in EventIds : delete_event(w, id)

\* a request of worker w to delete one image
ImageRequest(w) == \E id \in EventIds, img \in ImageIds : delete_image(w, id, img)

\* the steps of the handlers
Step(w) ==
  \/ ce_insert(w) \/ ce_save(w) \/ ce_image(w) \/ ce_commit(w)
  \/ ue_update(w) \/ ue_save(w) \/ ue_image(w) \/ ue_commit(w)
  \/ de_select(w) \/ de_exists(w) \/ de_remove(w) \/ de_delete(w) \/ de_commit(w)
  \/ send(w)

\* the steps of delete_image
ImageStep(w) == di_exists(w) \/ di_remove(w) \/ di_delete(w) \/ di_commit(w)

\* a call of the file system raises
IOError(w) ==
  \/ ce_save_fails(w) \/ ue_save_fails(w)
  \/ de_remove_fails(w) \/ di_remove_fails(w)

(***************************************************************************)
(* Spec: two workers handle the requests of the admin's browser            *)
(* concurrently: logging in and out, creating, updating and deleting       *)
(* events.                                                                 *)
(***************************************************************************)
Next ==
  \/ \E w \in Workers : PageRequest(w, {Login("POST", "admin", "admin123")})
  \/ \E w \in Workers :
       ApiRequest(w, {<<>>}, {<<b_JPG>>, <<b_JPG, b_JPG>>}, {[title |-> "Moved"]},
                  {<<b_JPG>>}, {<<>>})
  \/ \E w \in Workers : Step(w)
  \/ \E w \in Workers : database_locked(w)

Spec == Init /\ [][Next]_vars

(***************************************************************************)
(* SeqSpec: one worker handles the requests one after the other, and file  *)
(* system calls may fail.                                                  *)
(***************************************************************************)
Methods == {"GET", "POST"}
Usernames == {"admin", "Admin"}
Passwords == {"admin123", "admin"}

SeqNext ==
  \/ PageRequest("w1", {Login(m, u, p) : m \in Methods, u \in Usernames, p \in Passwords})
  \/ ApiRequest("w1",
                {<<>>, [category |-> "academic"], [category |-> "bogus"]},
                {<<>>, <<n_txt, b_JPG>>, <<b_JPG, b_JPG>>},
                {[title |-> "Moved"], [category |-> "bogus"]},
                {<<>>, <<README, b_JPG>>, <<b_JPG, b_JPG>>},
                {<<>>})
  \/ ImageRequest("w1")
  \/ Step("w1")
  \/ ImageStep("w1")
  \/ IOError("w1")

SeqSpec == Init /\ [][SeqNext]_vars

(***************************************************************************)
(* UpdateSpec: one worker handles update_event requests without files, one *)
(* after the other, on a session that has logged in and created a second   *)
(* event with one attachment some time ago.                                *)
(***************************************************************************)
UpdateInit ==
  /\ admin_logged_in = TRUE
  /\ db = [events |-> (1 :> sample_event) @@ (2 :> NewEvent([category |-> "academic"], 0)),
           event_images |-> (1 :> [event_id |-> 2,
                                   filename |-> unique_filename(1, b_JPG),
                                   original_name |-> secure_filename(b_JPG),
                                   uploaded_at |-> 0]),
           seq_events |-> 2,
           seq_images |-> 1]
  /\ tx = [w \in Workers |-> NoTx]
  /\ uploads = {unique_filename(1, b_JPG)}
  /\ uuid_count = 1
  /\ now = 1
  /\ pc = [w \in Workers |-> "idle"]
  /\ req = [w \in Workers |-> NoReq]
  /\ loc = [w \in Workers |-> NoLoc]
  /\ resp = [w \in Workers |-> NoResp]

\* the forms that carry the updatable fields of a set S with valid values,
\* a form with a category that is not valid, and one with no updatable field
UpdateForms ==
  {[f \in S |-> IF f = "category" THEN "social" ELSE "x"] :
     S \in SUBSET FieldSet \ {{}}}
    \cup {[category |-> "bogus"], [note |-> "x"]}

\* the first event, and an id that no event has
UpdateIds == {1, 3}

UpdateNext ==
  \/ \E id \in UpdateIds, form \in UpdateForms :
       update_event("w1", id, form, FALSE, <<>>, <<>>)
  \/ \E id \in UpdateIds : update_event("w1", id, <<>>, TRUE, <<>>, <<>>)
  \/ ue_update("w1")
  \/ ue_commit("w1")
  \/ send("w1")

UpdateSpec == UpdateInit /\ [][UpdateNext]_vars

(***************************************************************************)
(* ReadSpec: one worker handles the requests one after the other while the *)
(* clock moves on: events are created with dates and categories, get and   *)
(* lose images, are deleted, and the lists are read.                       *)
(***************************************************************************)
ReadRequest(w) ==
  \/ get_events(w)
  \/ get_slider_images(w)
  \/ \E id \in EventIds : get_event(w, id)
  \/ \E category \in {"spiritual", "academic", "bogus"} : get_events_by_category(w, category)

ReadNext ==
  \/ PageRequest("w1", {Login("POST", "admin", "admin123")})
  \/ ApiRequest("w1",
                {[event_date |-> "2026-02-15", category |-> "spiritual"],
                 [event_date |-> "2026-01-10", category |-> "academic"]},
                {<<>>, <<b_JPG>>},
                {<<>>, [title |-> "Moved"]},
                {<<b_JPG>>},
                {<<>>})
  \/ Step("w1")
  \/ ReadRequest("w1")
  \/ Tick

ReadSpec == Init /\ [][ReadNext]_vars

(***************************************************************************)
(* The properties.                                                         *)
(***************************************************************************)
Mutating == {"create_event", "update_event", "delete_event", "delete_image"}

\* worker w takes a request in this step
Takes(w) == pc[w] = "idle" /\ pc'[w] # "idle"

\* C1: while the session is anonymous, every create_event, update_event,
\* delete_event and delete_image request, whatever its arguments, is answered
\* at once with 401 "Authentication required", and the step changes neither
\* the tables (committed or in a transaction) nor the upload folder.
C1_AnonymousIsRefused ==
  [][\A w \in Workers :
       (~admin_logged_in /\ Takes(w) /\ req'[w].op \in Mutating)
         => /\ pc'[w] = "return"
            /\ resp'[w] = [status |-> 401, error |-> "Authentication required"]
            /\ UNCHANGED <<db, tx, uploads>>]_vars

\* C1 witness: an anonymous delete_image that names an existing image of an
\* existing event, with its file in the folder, has been refused.
C1_Witness ==
  \E w \in Workers :
    /\ pc[w] = "return" /\ resp[w].status = 401
    /\ req[w].op = "delete_image"
    /\ ImageFound(db, req[w].event_id, req[w].image_id)
    /\ db.event_images[req[w].image_id].filename \in uploads
    /\ ~admin_logged_in

\* C2: the session flag changes only in a step that takes a /login or a
\* /logout request; a /login on an anonymous session authenticates it exactly
\* when it is a POST whose username and password both equal the configured
\* pair, and leaves an authenticated session as it is; a /logout always
\* leaves the session anonymous; and a mutating request taken while the
\* session is anonymous is answered 401.
C2_SessionFollowsLoginLogout ==
  [][/\ admin_logged_in' # admin_logged_in
          => \E w \in Workers : Takes(w) /\ req'[w].op \in {"login_page", "logout"}
     /\ \A w \in Workers :
          /\ (Takes(w) /\ req'[w].op = "login_page")
               => admin_logged_in' =
                    (\/ admin_logged_in
                     \/ /\ req'[w].data.method = "POST"
                        /\ req'[w].data.username = ADMIN_USERNAME
                        /\ req'[w].data.password = ADMIN_PASSWORD)
          /\ (Takes(w) /\ req'[w].op = "logout") => ~admin_logged_in'
          /\ (Takes(w) /\ req'[w].op \in Mutating /\ ~admin_logged_in)
               => resp'[w].status = 401]_vars

\* C2 witness: a /logout has been answered on a session that had logged in
\* (an event was created under it), and the session is anonymous again.
C2_Witness ==
  \E w \in Workers :
    /\ pc[w] = "return" /\ req[w].op = "logout"
    /\ db.seq_events > InitialDb.seq_events
    /\ ~admin_logged_in

\* C3: with requests handled one at a time, a delete_event of an existing
\* event removes, before it commits, no file but files named by that event's
\* attachments; its commit answers 200 and removes exactly the event row and
\* all the event_images rows of the event, every other row and the folder
\* left as they are, and at that point none of the files of the removed
\* attachments is in the folder. An image id that is gone never comes back,
\* and delete_image on an id that resolves to no row of the event answers 404.
C3_DeleteEventCascades ==
  [][/\ \A w \in Workers :
          req[w].op = "delete_event" =>
            LET e == req[w].event_id
                mine == ImagesOf(db.event_images, e)
                names == {db.event_images[i].filename : i \in mine}
            IN  /\ pc[w] \in {"de_select", "de_exists", "de_remove", "de_delete"}
                     => /\ db' = db
                        /\ uploads' \subseteq uploads
                        /\ (uploads \ uploads') \subseteq names
                /\ (pc[w] = "de_commit" /\ pc'[w] = "return")
                     => /\ resp'[w].status = 200
                        /\ DOMAIN db'.events = DOMAIN db.events \ {e}
                        /\ \A k \in DOMAIN db'.events : db'.events[k] = db.events[k]
                        /\ DOMAIN db'.event_images = DOMAIN db.event_images \ mine
                        /\ \A i \in DOMAIN db'.event_images :
                             db'.event_images[i] = db.event_images[i]
                        /\ uploads' = uploads
                        /\ names \cap uploads' = {}
                        /\ \A i \in mine : ~ImageFound(db', e, i)
     /\ \A i \in 1..db.seq_images :
          i \notin DOMAIN db.event_images => i \notin DOMAIN db'.event_images
     /\ \A w \in Workers :
          (/\ Takes(w) /\ req'[w].op = "delete_image" /\ admin_logged_in
           /\ ~ImageFound(db, req'[w].event_id, req'[w].image_id))
            => pc'[w] = "return" /\ resp'[w].status = 404]_vars

\* C3 witness: a delete_event is about to commit the removal of an event
\* that has an attachment, while another event has an attachment of its own
\* whose file is in the folder.
C3_Witness ==
  \E w \in Workers :
    /\ pc[w] = "de_commit"
    /\ ImagesOf(db.event_images, req[w].event_id) # {}
    /\ \E j \in DOMAIN db.event_images :
         /\ db.event_images[j].event_id # req[w].event_id
         /\ db.event_images[j].event_id \in DOMAIN db.events
         /\ db.event_images[j].filename \in uploads

\* C4: with requests handled one at a time, a delete_event that comes to an
\* attachment whose file is not in the folder skips it without an error and
\* goes on; the handler ends other than with 200 only when os.remove raises
\* on a file that is there; and its DELETE and commit answer 200 and leave
\* neither the event row nor any event_images row of the event.
C4_MissingFileIsSkipped ==
  [][\A w \in Workers :
       (req[w].op = "delete_event" /\ pc[w] # "return") =>
         LET e == req[w].event_id
         IN  /\ (pc[w] = "de_exists" /\ Head(loc[w].rows) \notin uploads)
                  => /\ pc'[w] \in {"de_exists", "de_delete"}
                     /\ loc'[w].rows = Tail(loc[w].rows)
                     /\ UNCHANGED <<db, uploads>>
             /\ (pc'[w] = "return" /\ resp'[w].status # 200)
                  => /\ pc[w] = "de_remove"
                     /\ Head(loc[w].rows) \in uploads
                     /\ resp'[w].error = "OSError"
             /\ pc[w] = "de_delete" => pc'[w] = "de_commit"
             /\ pc[w] = "de_commit"
                  => /\ pc'[w] = "return" /\ resp'[w].status = 200
                     /\ e \notin DOMAIN db'.events
                     /\ ImagesOf(db'.event_images, e) = {}]_vars

\* C4 witness: a delete_event of an existing event with two attachments has
\* listed both and tests the first, whose file is not in the folder (an
\* earlier delete_event removed it and then failed on the second file).
C4_Witness ==
  \E w \in Workers :
    /\ pc[w] = "de_exists"
    /\ req[w].event_id \in DOMAIN db.events
    /\ Cardinality(ImagesOf(db.event_images, req[w].event_id)) = 2
    /\ Len(loc[w].rows) = 2
    /\ loc[w].rows[1] \notin uploads
    /\ loc[w].rows[2] \in uploads

\* C5 (as claimed): a delete_event that found its event never fails on the
\* file system: it ends with 200, the event row and all its event_images
\* rows deleted, also when os.remove raised on one of the files.
C5_RemoveErrorDoesNotFailDelete ==
  \A w \in Workers :
    (/\ pc[w] = "return" /\ req[w].op = "delete_event"
     /\ resp[w].status \notin {401, 404})
      => /\ resp[w].status = 200
         /\ req[w].event_id \notin DOMAIN db.events
         /\ ImagesOf(db.event_images, req[w].event_id) = {}

\* C6 (as claimed): every committed event_images row names a file that is in
\* the upload folder, in every state, those between a handler's file
\* operation and its commit included.
C6_NoDanglingAttachment ==
  \A i \in DOMAIN db.event_images : db.event_images[i].filename \in uploads

\* C7: no two event_images rows, committed or written in an open
\* transaction, have the same filename.
C7_StoredNamesDistinct ==
  \A w \in Workers :
    \A i, j \in DOMAIN View(w).event_images :
      i # j => View(w).event_images[i].filename # View(w).event_images[j].filename

\* C7 witness: two committed rows, of uploads that different requests sent
\* under the same client file name, with different stored names.
C7_Witness ==
  \E i, j \in DOMAIN db.event_images :
    /\ i # j
    /\ db.event_images[i].original_name = db.event_images[j].original_name
    /\ db.event_images[i].event_id # db.event_images[j].event_id
    /\ db.event_images[i].filename # db.event_images[j].filename
    /\ {db.event_images[i].filename, db.event_images[j].filename} \subseteq uploads

\* C8 (as claimed): the event_id of every committed event_images row is the
\* id of a committed events row.
C8_AttachmentOwnerExists ==
  \A i \in DOMAIN db.event_images : db.event_images[i].event_id \in DOMAIN db.events

\* C9: an update_event without files of an existing event, its data holding
\* the set S of updatable fields with valid values, writes without an error
\* and commits with 200; the commit sets each field of S to the value sent
\* and leaves every other field of the row (created_at too), the set of
\* event ids, every other event, the event_images table and the upload
\* folder as they were. Nothing changes before the commit.
C9_UpdateWritesOnlySentFields ==
  [][\A w \in Workers :
       (/\ req[w].op = "update_event"
        /\ req[w].event_id \in DOMAIN db.events
        /\ loc[w].files = <<>>
        /\ "category" \in DOMAIN req[w].data => req[w].data["category"] \in Categories)
         => LET e == req[w].event_id
                S == DOMAIN req[w].data \cap FieldSet
            IN  /\ pc[w] = "ue_update"
                     => pc'[w] = "ue_commit" /\ UNCHANGED <<db, uploads>>
                /\ pc[w] = "ue_commit"
                     => /\ pc'[w] = "return" /\ resp'[w].status = 200
                        /\ DOMAIN db'.events = DOMAIN db.events
                        /\ \A f \in S : db'.events[e][f] = req[w].data[f]
                        /\ \A f \in DOMAIN db.events[e] \ S :
                             db'.events[e][f] = db.events[e][f]
                        /\ \A k \in DOMAIN db.events \ {e} : db'.events[k] = db.events[k]
                        /\ db'.event_images = db.event_images
                        /\ db'.seq_events = db.seq_events
                        /\ db'.seq_images = db.seq_images
                        /\ uploads' = uploads]_vars

\* C9 witness: an update that sent the title alone has returned 200, and the
\* row has the new title, every other field as the sample row has it.
C9_Witness ==
  \E w \in Workers :
    /\ pc[w] = "return" /\ resp[w].status = 200
    /\ req[w].op = "update_event" /\ req[w].event_id = 1
    /\ DOMAIN req[w].data = {"title"}
    /\ db.events[1].title = req[w].data.title
    /\ db.events[1].title # sample_event.title
    /\ \A f \in DOMAIN sample_event \ {"title"} : db.events[1][f] = sample_event[f]

\* C10 (as claimed): a create_event of an authenticated caller with a
\* category outside the five valid ones ends with 400, and no event row is
\* persisted.
C10_InvalidCategoryIsRejected ==
  \A w \in Workers :
    (/\ pc[w] = "return" /\ req[w].op = "create_event"
     /\ resp[w].status # 401
     /\ "category" \in DOMAIN req[w].data
     /\ req[w].data["category"] \notin Categories)
      => /\ resp[w].status = 400
         /\ req[w].event_id \notin DOMAIN db.events

\* C10 (amended): a create_event of an authenticated caller with a category
\* outside the five valid ones never ends with 400: it ends with 201 and the
\* event row persisted with category 'general', or, when saving a file
\* raised, with 500 and neither the event row nor an event_images row of it
\* persisted.
C10_InvalidCategoryIsCoerced ==
  \A w \in Workers :
    (/\ pc[w] = "return" /\ req[w].op = "create_event"
     /\ resp[w].status # 401
     /\ "category" \in DOMAIN req[w].data
     /\ req[w].data["category"] \notin Categories)
      => \/ /\ resp[w].status = 201
            /\ req[w].event_id \in DOMAIN db.events
            /\ db.events[req[w].event_id].category = "general"
         \/ /\ resp[w].status = 500
            /\ req[w].event_id \notin DOMAIN db.events
            /\ ImagesOf(db.event_images, req[w].event_id) = {}

\* C10 witness: a create_event that sent the category "bogus" and a file has
\* returned 201, the event stored as 'general' with its attachment.
C10_Witness ==
  \E w \in Workers :
    /\ pc[w] = "return" /\ resp[w].status = 201
    /\ req[w].op = "create_event"
    /\ "category" \in DOMAIN req[w].data
    /\ req[w].data["category"] \notin Categories
    /\ db.events[req[w].event_id].category = "general"
    /\ ImagesOf(db.event_images, req[w].event_id) # {}

\* C11 (as claimed): no step of an update_event of an existing event whose
\* data has a category outside the five valid ones changes the tables or the
\* upload folder, and the handler ends with 400.
C11_InvalidCategoryUpdateIsRejected ==
  [][\A w \in Workers :
       (/\ req[w].op = "update_event"
        /\ pc[w] \notin {"idle", "return"}
        /\ "category" \in DOMAIN req[w].data
        /\ req[w].data["category"] \notin Categories)
         => /\ UNCHANGED <<db, uploads>>
            /\ pc'[w] = "return" => resp'[w].status = 400]_vars

\* C12: the list get_events returns has every event of the tables exactly
\* once, with the fields of its row and with exactly its own event_images
\* rows, each once; the list is in event_date order, events of one date the
\* later created first, and events equal on both in id order.
C12_EventListCompleteAndOrdered ==
  \A w \in Workers :
    (pc[w] = "return" /\ req[w].op = "get_events") =>
      LET body == resp[w].body
      IN  /\ resp[w].status = 200
          /\ Len(body) = Cardinality(DOMAIN db.events)
          /\ \A i \in DOMAIN db.events : \E k \in 1..Len(body) : body[k].id = i
          /\ \A k \in 1..Len(body) :
               LET e == body[k]
               IN  /\ \A f \in DOMAIN db.events[e.id] : e[f] = db.events[e.id][f]
                   /\ Len(e.images) = Cardinality(ImagesOf(db.event_images, e.id))
                   /\ \A a \in ImagesOf(db.event_images, e.id) :
                        \E m \in 1..Len(e.images) :
                          /\ e.images[m].id = a
                          /\ e.images[m].filename = db.event_images[a].filename
                          /\ e.images[m].event_id = e.id
          /\ \A k, l \in 1..Len(body) :
               k < l =>
                 \/ TextRank(body[k].event_date) < TextRank(body[l].event_date)
                 \/ /\ body[k].event_date = body[l].event_date
                    /\ body[k].created_at > body[l].created_at
                 \/ /\ body[k].event_date = body[l].event_date
                    /\ body[k].created_at = body[l].created_at
                    /\ body[k].id < body[l].id

\* C12 witness: get_events has returned two events of one date, the one
\* created later, which has an image, before the sample event.
C12_Witness ==
  \E w \in Workers :
    /\ pc[w] = "return" /\ req[w].op = "get_events"
    /\ Len(resp[w].body) = 2
    /\ resp[w].body[1].event_date = resp[w].body[2].event_date
    /\ resp[w].body[1].created_at > resp[w].body[2].created_at
    /\ resp[w].body[1].id > resp[w].body[2].id
    /\ resp[w].body[1].images # <<>>
    /\ resp[w].body[2].images = <<>>

\* C13 (as claimed): get_events_by_category answers 400 for a category
\* outside the five valid ones, and for a valid one the events of the
\* get_events list that have the category, in the order of that list.
C13_CategoryListIsFilteredEventList ==
  \A w \in Workers :
    (pc[w] = "return" /\ req[w].op = "get_events_by_category") =>
      IF req[w].data.category \notin Categories
      THEN resp[w].status = 400
      ELSE /\ resp[w].status = 200
           /\ resp[w].body =
                SelectSeq(EventList(db), LAMBDA e : e.category = req[w].data.category)

\* C14: the list get_slider_images returns has one entry for every
\* event_images row of an event of the tables and no other entry, so as many
\* entries of an event as it has images; an entry has the title, date and
\* other fields of its event and the path /uploads/<filename> of its image;
\* the list is in the order of the events' event_date, entries of one date
\* the later uploaded first.
C14_SlidesCompleteAndOrdered ==
  \A w \in Workers :
    (pc[w] = "return" /\ req[w].op = "get_slider_images") =>
      LET body == resp[w].body
          shown == {a \in DOMAIN db.event_images :
                      db.event_images[a].event_id \in DOMAIN db.events}
      IN  /\ resp[w].status = 200
          /\ Len(body) = Cardinality(shown)
          /\ \A a \in shown : \E k \in 1..Len(body) : body[k].image_id = a
          /\ \A e \in DOMAIN db.events :
               Cardinality({k \in 1..Len(body) : body[k].event_id = e})
                 = Cardinality(ImagesOf(db.event_images, e))
          /\ \A k \in 1..Len(body) :
               LET s == body[k]
                   e == db.events[s.event_id]
               IN  /\ s.image_id \in shown
                   /\ s.event_id = db.event_images[s.image_id].event_id
                   /\ s.image = <<"/uploads/", db.event_images[s.image_id].filename>>
                   /\ s.title = e.title /\ s.description = e.description
                   /\ s.date = e.event_date /\ s.time = e.event_time
                   /\ s.location = e.location /\ s.category = e.category
                   /\ s.author = e.author /\ s.author_initials = e.author_initials
          /\ \A k, l \in 1..Len(body) :
               k < l =>
                 \/ TextRank(body[k].date) < TextRank(body[l].date)
                 \/ /\ body[k].date = body[l].date
                    /\ db.event_images[body[k].image_id].uploaded_at
                         >= db.event_images[body[l].image_id].uploaded_at

\* C14 witness: get_slider_images has returned two entries of one event, the
\* image uploaded later first, while the sample event has no image.
C14_Witness ==
  \E w \in Workers :
    /\ pc[w] = "return" /\ req[w].op = "get_slider_images"
    /\ Len(resp[w].body) = 2
    /\ resp[w].body[1].event_id = resp[w].body[2].event_id
    /\ resp[w].body[1].image_id > resp[w].body[2].image_id
    /\ db.event_images[resp[w].body[1].image_id].uploaded_at
         > db.event_images[resp[w].body[2].image_id].uploaded_at
    /\ 1 \in DOMAIN db.events
    /\ ImagesOf(db.event_images, 1) = {}

\* C15 (as claimed): a get_event, and on an authenticated session an
\* update_event or a delete_event, whose id is the id of no event is
\* answered at once with 404, and the step changes neither the tables
\* (committed or in a transaction) nor the upload folder.
C15_UnknownIdIsNotFound ==
  [][\A w \in Workers :
       (/\ Takes(w)
        /\ req'[w].op \in {"get_event", "update_event", "delete_event"}
        /\ req'[w].op = "get_event" \/ admin_logged_in
        /\ req'[w].event_id \notin DOMAIN db.events)
         => /\ pc'[w] = "return"
            /\ resp'[w].status = 404
            /\ UNCHANGED <<db, tx, uploads>>]_vars

\* C16: with requests handled one at a time, an authenticated delete_image
\* that names no event_images row of that id under that event is answered at
\* once with 404 and changes nothing. Otherwise the handler skips a file that
\* is not in the folder, removes one that is and nothing else, ends other
\* than with 200 only when os.remove raises on a file that is there, and its
\* commit answers 200 and removes that one event_images row, the events, the
\* other rows and the folder left as they are and the file of the row not in
\* the folder.
C16_DeleteImageRemovesOneAttachment ==
  [][\A w \in Workers :
       /\ (/\ Takes(w) /\ req'[w].op = "delete_image" /\ admin_logged_in
           /\ ~(/\ req'[w].image_id \in DOMAIN db.event_images
                /\ db.event_images[req'[w].image_id].event_id = req'[w].event_id))
            => /\ pc'[w] = "return" /\ resp'[w].status = 404
               /\ UNCHANGED <<db, tx, uploads>>
       /\ (req[w].op = "delete_image" /\ pc[w] \notin {"idle", "return"}) =>
            LET a == req[w].image_id
                name == db.event_images[a].filename
            IN  /\ (pc[w] = "di_exists" /\ name \notin uploads)
                     => pc'[w] = "di_delete" /\ UNCHANGED <<db, uploads>>
                /\ (pc[w] = "di_remove" /\ pc'[w] # "return")
                     => /\ pc'[w] = "di_delete"
                        /\ uploads' = uploads \ {name}
                        /\ db' = db
                /\ (pc'[w] = "return" /\ resp'[w].status # 200)
                     => /\ pc[w] = "di_remove" /\ name \in uploads
                        /\ resp'[w].error = "OSError"
                        /\ UNCHANGED <<db, uploads>>
                /\ pc[w] = "di_delete" => pc'[w] = "di_commit" /\ UNCHANGED <<db, uploads>>
                /\ pc[w] = "di_commit"
                     => /\ pc'[w] = "return" /\ resp'[w].status = 200
                        /\ DOMAIN db'.event_images = DOMAIN db.event_images \ {a}
                        /\ \A i \in DOMAIN db'.event_images :
                             db'.event_images[i] = db.event_images[i]
                        /\ db'.events = db.events
                        /\ uploads' = uploads
                        /\ name \notin uploads']_vars

\* C16 witness: a delete_image of the first of an event's two images tests
\* its file, which is not in the folder (a delete_event removed it and then
\* failed on the second file), while the second image has its file.
C16_Witness ==
  \E w \in Workers :
    /\ pc[w] = "di_exists" /\ req[w].op = "delete_image"
    /\ db.event_images[req[w].image_id].filename \notin uploads
    /\ \E b \in ImagesOf(db.event_images, req[w].event_id) :
         b # req[w].image_id /\ db.event_images[b].filename \in uploads

C18_SiblingsSurviveFailedSave ==
  [][\A w \in Workers :
       (/\ pc[w] \in {"ce_save", "ue_save"}
        /\ pc'[w] = "return" /\ resp'[w].status = 500
        /\ tx[w] # NoTx)
         => \A a \in DOMAIN tx[w].event_images \ DOMAIN db.event_images :
              /\ a \in DOMAIN db'.event_images
              /\ db'.event_images[a] = tx[w].event_images[a]
              /\ tx[w].event_images[a].filename \in uploads']_vars

C20_NoOrphanFile ==
  (\A w \in Workers : pc[w] \in {"idle", "return"})
    => \A n \in uploads :
         Cardinality({a \in DOMAIN db.event_images : db.event_images[a].filename = n}) = 1

====
